---- MODULE Spec2Model ----
(***************************************************************************)
(* Model of r2d2's pool configuration (src/config.rs): the Config value,   *)
(* its Builder, and one construction call chain followed by reads of the   *)
(* built Config and error reports dispatched to its handler.               *)
(*                                                                         *)
(* A Duration is represented by its length in milliseconds.  An            *)
(* Option-like value (a builder that may have been moved or dropped) is a  *)
(* sequence of length 0 or 1.  A Box<ErrorHandler<E>> is represented by    *)
(* the identity of its allocation.                                         *)
(***************************************************************************)
EXTENDS Integers, Sequences, FiniteSets, TLC

\* ---- bounds of the exploration ----
MaxCalls == 3          \* setter calls in one chain
MaxN == 2              \* u32 arguments tried: 0..MaxN
MaxDur == 2            \* Duration arguments tried: -MaxDur..MaxDur ms
MaxHandlers == 2       \* caller-made handler boxes: 1..MaxHandlers
MaxInvocations == 2    \* error reports dispatched through a built Config

VARIABLES pc, origin, builder, config, chain, prev, live, calls, invocations, ret

vars == <<pc, origin, builder, config, chain, prev, live, calls, invocations, ret>>

\* ---- values ----
NoopErrorHandler == 0
CustomHandlers == 1..MaxHandlers
Handlers == {NoopErrorHandler} \cup CustomHandlers

U32Inputs == 0..MaxN
DurationInputs == (0 - MaxDur)..MaxDur
Fields == {"pool_size", "helper_threads", "test_on_check_out",
           "initialization_fail_fast", "connection_timeout", "error_handler"}

Duration_zero == 0
Duration_seconds(s) == s * 1000

\* A panicking call returns nothing; a returning call returns one value.
Panic == <<>>
Returned(v) == <<v>>

\* ---- Config ----
\* Variant: a default pool of 8 connections.
Config_default_pool8 ==
    [pool_size |-> 8,
     helper_threads |-> 3,
     test_on_check_out |-> TRUE,
     initialization_fail_fast |-> TRUE,
     connection_timeout |-> Duration_seconds(30),
     error_handler |-> NoopErrorHandler]

Config_default ==
    [pool_size |-> 10,
     helper_threads |-> 3,
     test_on_check_out |-> TRUE,
     initialization_fail_fast |-> TRUE,
     connection_timeout |-> Duration_seconds(30),
     error_handler |-> NoopErrorHandler]

Config_pool_size(self) == self.pool_size
Config_helper_threads(self) == self.helper_threads
Config_test_on_check_out(self) == self.test_on_check_out
Config_initialization_fail_fast(self) == self.initialization_fail_fast
Config_connection_timeout(self) == self.connection_timeout
Config_error_handler(self) == self.error_handler

\* ---- Builder ----
Builder_new == [c |-> Config_default]

Config_builder == Builder_new

\* Variant: the assertion is missing.
Builder_pool_size_unchecked(self, pool_size) ==
    Returned([self EXCEPT !.c.pool_size = pool_size])

\* Variant: only the first explicit value is kept.
Builder_pool_size_first(self, pool_size) ==
    IF pool_size > 0
    THEN Returned(IF self.c.pool_size = Config_default.pool_size
                  THEN [self EXCEPT !.c.pool_size = pool_size]
                  ELSE self)
    ELSE Panic

Builder_pool_size(self, pool_size) ==
    IF pool_size > 0
    THEN Returned([self EXCEPT !.c.pool_size = pool_size])
    ELSE Panic

\* Variant: 0 is raised to 1 instead of being rejected.
Builder_helper_threads_clamped(self, helper_threads) ==
    Returned([self EXCEPT !.c.helper_threads =
                  IF helper_threads > 0 THEN helper_threads ELSE 1])

\* Variant: the pool is grown to hold at least one connection per helper.
Builder_helper_threads_grow(self, helper_threads) ==
    IF helper_threads > 0
    THEN Returned([self EXCEPT !.c.helper_threads = helper_threads,
                               !.c.pool_size = IF @ < helper_threads
                                               THEN helper_threads ELSE @])
    ELSE Panic

Builder_helper_threads(self, helper_threads) ==
    IF helper_threads > 0
    THEN Returned([self EXCEPT !.c.helper_threads = helper_threads])
    ELSE Panic

\* Variant: the value is stored in both boolean fields.
Builder_test_on_check_out_both(self, test_on_check_out) ==
    Returned([self EXCEPT !.c.test_on_check_out = test_on_check_out,
                          !.c.initialization_fail_fast = test_on_check_out])

Builder_test_on_check_out(self, test_on_check_out) ==
    Returned([self EXCEPT !.c.test_on_check_out = test_on_check_out])

Builder_initialization_fail_fast(self, initialization_fail_fast) ==
    Returned([self EXCEPT !.c.initialization_fail_fast = initialization_fail_fast])

\* Variant: the timeout is stored in whole seconds.
Builder_connection_timeout_secs(self, connection_timeout) ==
    IF connection_timeout > Duration_zero
    THEN Returned([self EXCEPT !.c.connection_timeout =
                       Duration_seconds(connection_timeout \div 1000)])
    ELSE Panic

Builder_connection_timeout(self, connection_timeout) ==
    IF connection_timeout > Duration_zero
    THEN Returned([self EXCEPT !.c.connection_timeout = connection_timeout])
    ELSE Panic

\* Variant: a handler already replaced once is kept.
Builder_error_handler_keep(self, error_handler) ==
    Returned(IF self.c.error_handler = NoopErrorHandler
             THEN [self EXCEPT !.c.error_handler = error_handler]
             ELSE self)

Builder_error_handler(self, error_handler) ==
    Returned([self EXCEPT !.c.error_handler = error_handler])

Builder_build(self) == self.c

\* Variant: the box that is overwritten is leaked.
AssignBox_leak(owned, old, new) == owned \cup {new}

\* Boxes owned after `field = new`: the box the field held is dropped.
AssignBox(owned, old, new) == (owned \ {old}) \cup {new}

\* The setter named op applied to builder self with argument arg.
ApplySetter(self, op, arg) ==
    CASE op = "pool_size" -> Builder_pool_size(self, arg)
      [] op = "helper_threads" -> Builder_helper_threads(self, arg)
      [] op = "test_on_check_out" -> Builder_test_on_check_out(self, arg)
      [] op = "initialization_fail_fast" -> Builder_initialization_fail_fast(self, arg)
      [] op = "connection_timeout" -> Builder_connection_timeout(self, arg)
      [] op = "error_handler" -> Builder_error_handler(self, arg)

\* ---- state machine ----
Init ==
    /\ pc = "start"
    /\ origin = "none"
    /\ builder = <<>>
    /\ config = <<>>
    /\ chain = <<>>
    /\ prev = <<>>
    /\ live = {}
    /\ calls = [h \in Handlers |-> 0]
    /\ invocations = 0
    /\ ret = <<>>

\* Builder::new(): the builder owns a default Config and its no-op handler box.
BuilderNew ==
    /\ pc = "start"
    /\ builder' = Returned(Builder_new)
    /\ live' = {Builder_new.c.error_handler}
    /\ origin' = "Builder::new"
    /\ pc' = "chain"
    /\ UNCHANGED <<config, chain, prev, calls, invocations, ret>>

\* Config::builder()
ConfigBuilder ==
    /\ pc = "start"
    /\ builder' = Returned(Config_builder)
    /\ live' = {Config_builder.c.error_handler}
    /\ origin' = "Config::builder"
    /\ pc' = "chain"
    /\ UNCHANGED <<config, chain, prev, calls, invocations, ret>>

\* Config::default() used directly, without a builder.
ConfigDefault ==
    /\ pc = "start"
    /\ config' = Returned(Config_default)
    /\ live' = {Config_default.error_handler}
    /\ origin' = "Config::default"
    /\ pc' = "built"
    /\ UNCHANGED <<builder, chain, prev, calls, invocations, ret>>

\* One chained setter call.  The builder is moved into the call; it comes
\* back on return and is dropped, with everything it owns and with the
\* argument, when the assertion fails.  A handler box stored over the old
\* one drops the old one.
Call(op, arg) ==
    /\ pc = "chain"
    /\ Len(chain) < MaxCalls
    /\ LET self == builder[1]
           r == ApplySetter(self, op, arg)
       IN /\ builder' = r
          /\ pc' = IF r = Panic THEN "panicked" ELSE "chain"
          /\ live' = IF r = Panic
                     THEN {}
                     ELSE IF op = "error_handler"
                          THEN AssignBox(live, self.c.error_handler, r[1].c.error_handler)
                          ELSE live
          /\ chain' = Append(chain, [op |-> op, arg |-> arg])
          /\ prev' = Append(prev, self.c)
    /\ UNCHANGED <<origin, config, calls, invocations, ret>>

CallPoolSize == \E n \in U32Inputs : Call("pool_size", n)

CallHelperThreads == \E n \in U32Inputs : Call("helper_threads", n)

CallTestOnCheckOut == \E b \in BOOLEAN : Call("test_on_check_out", b)

CallInitializationFailFast == \E b \in BOOLEAN : Call("initialization_fail_fast", b)

CallConnectionTimeout == \E d \in DurationInputs : Call("connection_timeout", d)

\* A Box is moved into the call, so each box is passed at most once.
CallErrorHandler ==
    \E h \in CustomHandlers :
        /\ \A i \in 1..Len(chain) :
              chain[i].op = "error_handler" => chain[i].arg # h
        /\ Call("error_handler", h)

\* Variant: build(&self) leaves the builder usable.
Build_borrowing ==
    /\ pc = "chain"
    /\ config' = Returned(Builder_build(builder[1]))
    /\ pc' = "built"
    /\ UNCHANGED <<origin, builder, chain, prev, live, calls, invocations, ret>>

\* build(self): the builder is consumed, the caller gets its Config.
Build ==
    /\ pc = "chain"
    /\ config' = Returned(Builder_build(builder[1]))
    /\ builder' = <<>>
    /\ pc' = "built"
    /\ UNCHANGED <<origin, chain, prev, live, calls, invocations, ret>>

\* An accessor call on the built Config (&self).
Read(name, value) ==
    /\ pc = "built"
    /\ ret' = <<name, value>>
    /\ UNCHANGED <<pc, origin, builder, config, chain, prev, live, calls, invocations>>

ReadPoolSize == Read("pool_size", Config_pool_size(config[1]))

ReadHelperThreads == Read("helper_threads", Config_helper_threads(config[1]))

ReadTestOnCheckOut == Read("test_on_check_out", Config_test_on_check_out(config[1]))

ReadInitializationFailFast ==
    Read("initialization_fail_fast", Config_initialization_fail_fast(config[1]))

ReadConnectionTimeout ==
    Read("connection_timeout", Config_connection_timeout(config[1]))

\* The pool reports an error: config.error_handler().handle_error(e)
\* dispatches to the handler the Config owns.
HandleError ==
    /\ pc = "built"
    /\ invocations < MaxInvocations
    /\ LET h == Config_error_handler(config[1])
       IN /\ calls' = [calls EXCEPT ![h] = @ + 1]
          /\ ret' = <<"error_handler", h>>
    /\ invocations' = invocations + 1
    /\ UNCHANGED <<pc, origin, builder, config, chain, prev, live>>

Next ==
    \/ BuilderNew
    \/ ConfigBuilder
    \/ ConfigDefault
    \/ CallPoolSize
    \/ CallHelperThreads
    \/ CallTestOnCheckOut
    \/ CallInitializationFailFast
    \/ CallConnectionTimeout
    \/ CallErrorHandler
    \/ Build
    \/ ReadPoolSize
    \/ ReadHelperThreads
    \/ ReadTestOnCheckOut
    \/ ReadInitializationFailFast
    \/ ReadConnectionTimeout
    \/ HandleError

Spec == Init /\ [][Next]_vars

\* ---- properties ----
\* The Config values that exist: the one staged in the builder, the built one.
Existing ==
    {builder[i].c : i \in 1..Len(builder)} \cup {config[i] : i \in 1..Len(config)}

Cur == IF builder # <<>> THEN builder[1].c ELSE config[1]

\* Call i returned (only the last call of a chain can have panicked).
Succeeded(i) == i < Len(chain) \/ pc # "panicked"

\* The staged Config after call i returned.
After(i) == IF i < Len(chain) THEN prev[i + 1] ELSE Cur

HasCall(f) == \E i \in 1..Len(chain) : chain[i].op = f

LastCall(f) ==
    CHOOSE i \in 1..Len(chain) :
        /\ chain[i].op = f
        /\ \A j \in (i + 1)..Len(chain) : chain[j].op # f

Valid(cf) ==
    /\ cf.pool_size >= 1
    /\ cf.helper_threads >= 1
    /\ cf.connection_timeout > 0

InvalidCall(call) ==
    \/ call.op \in {"pool_size", "helper_threads"} /\ call.arg = 0
    \/ call.op = "connection_timeout" /\ call.arg <= 0

\* C1: after any sequence of setter calls, the staged Config, every Config
\* it has been and every built Config have pool_size >= 1, helper_threads >= 1
\* and connection_timeout > 0.
C1_AlwaysValid ==
    /\ \A cf \in Existing : Valid(cf)
    /\ \A i \in 1..Len(prev) : Valid(prev[i])

C1_Witness ==
    /\ pc = "built"
    /\ HasCall("pool_size")
    /\ HasCall("helper_threads")
    /\ HasCall("connection_timeout")

\* C2: a call of pool_size(0), helper_threads(0) or connection_timeout(d)
\* with d <= 0 fails at that call: it is the last call of its chain, the
\* builder is gone and no Config is ever built from the chain.
C2_InvalidCallFails ==
    \A i \in 1..Len(chain) :
        InvalidCall(chain[i]) =>
            /\ i = Len(chain)
            /\ pc = "panicked"
            /\ builder = <<>>
            /\ config = <<>>

C2_Witness ==
    /\ pc = "panicked"
    /\ Len(chain) >= 2
    /\ chain[Len(chain)].op = "helper_threads"
    /\ chain[Len(chain)].arg = 0

\* C3: a fresh builder, one call of pool_size(n), helper_threads(n) or
\* connection_timeout(d) with a valid argument, then build: the accessor of
\* that field returns the argument.
C3_RoundTrip ==
    (pc = "built" /\ Len(chain) = 1) =>
        /\ chain[1].op = "pool_size" =>
              Config_pool_size(config[1]) = chain[1].arg
        /\ chain[1].op = "helper_threads" =>
              Config_helper_threads(config[1]) = chain[1].arg
        /\ chain[1].op = "connection_timeout" =>
              Config_connection_timeout(config[1]) = chain[1].arg

C3_Witness ==
    /\ pc = "built"
    /\ Len(chain) = 1
    /\ chain[1].op = "connection_timeout"
    /\ chain[1].arg = 1
    /\ ret = <<"connection_timeout", 1>>

\* C4: Config::default() and a Config built with no setter called have
\* pool_size 10, helper_threads 3, both flags true, a 30 second timeout and
\* the no-op handler.
C4_Defaults ==
    (pc = "built" /\ chain = <<>>) =>
        /\ Config_pool_size(config[1]) = 10
        /\ Config_helper_threads(config[1]) = 3
        /\ Config_test_on_check_out(config[1]) = TRUE
        /\ Config_initialization_fail_fast(config[1]) = TRUE
        /\ Config_connection_timeout(config[1]) = 30000
        /\ Config_error_handler(config[1]) = NoopErrorHandler

C4_Witness ==
    /\ pc = "built"
    /\ chain = <<>>
    /\ origin = "Config::builder"
    /\ ret = <<"pool_size", 10>>

\* C5: in a built Config, every field that some setter call of the chain
\* named holds the argument of the last such call.
C5_LastWriteWins ==
    pc = "built" =>
        \A f \in Fields :
            HasCall(f) => config[1][f] = chain[LastCall(f)].arg

C5_Witness ==
    /\ pc = "built"
    /\ \E i, j \in 1..Len(chain) :
          /\ i < j
          /\ chain[i].op = "pool_size"
          /\ chain[j].op = "pool_size"
          /\ chain[i].arg # chain[j].arg
          /\ config[1].pool_size = chain[j].arg

\* C6: two consecutive successful setter calls on different fields give the
\* Config that the same two calls give in the other order.
C6_Commute ==
    \A i \in 1..(Len(chain) - 1) :
        (Succeeded(i + 1) /\ chain[i].op # chain[i + 1].op) =>
            LET start == [c |-> prev[i]]
                first == ApplySetter(start, chain[i + 1].op, chain[i + 1].arg)
            IN /\ first # Panic
               /\ ApplySetter(first[1], chain[i].op, chain[i].arg)
                      = Returned([c |-> After(i + 1)])

C6_Witness ==
    /\ pc = "built"
    /\ Len(chain) = 2
    /\ chain[1] = [op |-> "pool_size", arg |-> 1]
    /\ chain[2] = [op |-> "helper_threads", arg |-> 2]
    /\ config[1].pool_size = 1
    /\ config[1].helper_threads = 2

\* C7: once error_handler(h) was the last error_handler call, the built
\* Config's handler is h, every error report reaches h and only h, and no
\* other handler is alive.
C7_HandlerReplaced ==
    HasCall("error_handler") =>
        LET h == chain[LastCall("error_handler")].arg
        IN /\ pc = "built" => Config_error_handler(config[1]) = h
           /\ calls[h] = invocations
           /\ \A g \in Handlers \ {h} : calls[g] = 0 /\ g \notin live

C7_Witness ==
    /\ pc = "built"
    /\ \E i, j \in 1..Len(chain) :
          /\ i < j
          /\ chain[i].op = "error_handler"
          /\ chain[j].op = "error_handler"
          /\ invocations = 1
          /\ calls[chain[j].arg] = 1
          /\ calls[chain[i].arg] = 0

\* C8: a staged or built Config owns exactly one handler, which is the
\* no-op handler as long as error_handler was not called.
C8_OneHandler ==
    \A cf \in Existing :
        /\ cf.error_handler \in Handlers
        /\ live = {cf.error_handler}
        /\ Cardinality(live) = 1
        /\ ~HasCall("error_handler") => cf.error_handler = NoopErrorHandler

C8_Witness ==
    /\ pc = "built"
    /\ HasCall("error_handler")
    /\ config[1].error_handler \in CustomHandlers
    /\ live = {config[1].error_handler}

\* C9: once a Config is built there is no builder any more, the Config never
\* changes, and each accessor returns the value of its field.
C9_BuiltIsFinal ==
    [][config # <<>> =>
          /\ builder = <<>>
          /\ builder' = <<>>
          /\ config' = config
          /\ pc' = "built"
          /\ ret' # <<>> => ret'[2] = config[1][ret'[1]]]_vars

C9_Witness ==
    /\ pc = "built"
    /\ builder = <<>>
    /\ Len(chain) > 0
    /\ invocations > 0
    /\ ret # <<>>
    /\ ret[1] = "connection_timeout"

\* C10: a setter call that returns changes no field but its own, and the
\* two boolean setters always return.
C10_Frame ==
    \A i \in 1..Len(chain) :
        /\ chain[i].op \in {"test_on_check_out", "initialization_fail_fast"} =>
              Succeeded(i)
        /\ Succeeded(i) =>
              \A f \in Fields \ {chain[i].op} : After(i)[f] = prev[i][f]

C10_Witness ==
    /\ pc = "chain"
    /\ Len(chain) = 2
    /\ chain[1].op = "error_handler"
    /\ chain[2] = [op |-> "test_on_check_out", arg |-> FALSE]
    /\ builder[1].c.error_handler = chain[1].arg
    /\ builder[1].c.test_on_check_out = FALSE

====
